---- MODULE Spec2Model ----
(***************************************************************************)
(* A model of libwyag.py: the KVLM codec, the tree codec, the object store *)
(* (write_object / read_object / find_object) and the commands built on    *)
(* them.  Byte strings are sequences of byte codes; indices follow Python  *)
(* (0-based, find gives -1, slices clamp and accept negative bounds).      *)
(***************************************************************************)
EXTENDS Integers, Sequences, FiniteSets, TLC

VARIABLES
  kv_map,      \* codec run: the map handed to serialize_kvlm
  raw_block,   \* codec run: the bytes serialize_kvlm produced
  kv_parsed,   \* codec run: the map parse_kvlm read back
  kv_pc,       \* codec run: "new", "wire", "parsed"
  t_data,      \* tree decoding: the payload given to TreeObject.deserialize
  t_idx,       \* tree decoding: idx
  t_entries,   \* tree decoding: self.tree_entries
  t_pc,        \* tree decoding: "loop", "returned", "raised"
  objdirs,     \* the directories .git/objects/XX that exist
  objfiles,    \* id -> bytes of the file .git/objects/id[:2]/id[2:]
  head,        \* bytes of .git/HEAD
  tags,        \* tag name -> bytes of .git/refs/tags/<name>
  ws,          \* workspace outside .git: path -> [kind, data]
  pc,          \* where the running command is; "idle" between commands
  op,          \* the locals of the running command
  ret          \* what the last finished command returned or raised

kvVars == <<kv_map, raw_block, kv_parsed, kv_pc>>
treeVars == <<t_data, t_idx, t_entries, t_pc>>
fsVars == <<objdirs, objfiles, head, tags, ws>>
repoVars == <<objdirs, objfiles, head, tags, ws, pc, op, ret>>

\* a codec that is not being run
KvIdle == kv_map = << >> /\ raw_block = << >> /\ kv_parsed = << >> /\ kv_pc = "off"
TreeIdle == t_data = << >> /\ t_idx = 0 /\ t_entries = << >> /\ t_pc = "off"

\* ------------------------------------------------------------------ bytes
SP == 32
LF == 10
NUL == 0
Letters == <<97, 98>>
ChA == Letters[1]
ChB == Letters[2]

Min2(a, b) == IF a < b THEN a ELSE b
Max2(a, b) == IF a > b THEN a ELSE b

\* Python s[a:b]
PySlice(s, a, b) ==
  LET n  == Len(s)
      a1 == IF a < 0 THEN Max2(a + n, 0) ELSE Min2(a, n)
      b1 == IF b < 0 THEN Max2(b + n, 0) ELSE Min2(b, n)
  IN  IF a1 >= b1 THEN << >> ELSE SubSeq(s, a1 + 1, b1)

\* Python s[a:]
PyFrom(s, a) == PySlice(s, a, Len(s))

\* Python s.find(c, start) for a single byte c
PyFind(s, c, start) ==
  LET from == IF start < 0 THEN Max2(start + Len(s), 0) ELSE start
      hits == {i \in from..(Len(s) - 1) : s[i + 1] = c}
  IN  IF hits = {} THEN -1 ELSE CHOOSE i \in hits : \A j \in hits : i <= j

RECURSIVE Concat(_)
Concat(ss) == IF ss = << >> THEN << >> ELSE Head(ss) \o Concat(Tail(ss))

\* the sequences over S of length at most n
RECURSIVE SeqsUpTo(_, _)
SeqsUpTo(S, n) ==
  IF n = 0 THEN {<< >>}
  ELSE LET shorter == SeqsUpTo(S, n - 1)
       IN  shorter \cup {Append(t, x) : x \in S, t \in {u \in shorter : Len(u) = n - 1}}

BytesUpTo(alphabet, n) == SeqsUpTo(alphabet, n)

\* ------------------------------------------------------------------ KVLM
\* A kv_map is the OrderedDict of the source: a sequence of entries in
\* insertion order, an entry being [key, isList, vals]; a scalar is
\* isList = FALSE with one value.  The trailer is the entry with key <<>>.

\* faulty variant: the value written as it is, no space put after a newline
FoldValue_Unfolded(v) == v

\* val.replace(b'\n', b'\n ')
RECURSIVE FoldValue(_)
FoldValue(v) ==
  IF v = << >> THEN << >>
  ELSE IF Head(v) = LF THEN <<LF, SP>> \o FoldValue(Tail(v))
  ELSE <<Head(v)>> \o FoldValue(Tail(v))

\* raw.replace(b'\n ', b'\n'): leftmost, non-overlapping
RECURSIVE UnfoldValue(_)
UnfoldValue(v) ==
  IF v = << >> THEN << >>
  ELSE IF Len(v) >= 2 /\ v[1] = LF /\ v[2] = SP
       THEN <<LF>> \o UnfoldValue(SubSeq(v, 3, Len(v)))
  ELSE <<Head(v)>> \o UnfoldValue(Tail(v))

KvHas(kv, key) == \E i \in 1..Len(kv) : kv[i].key = key
KvIndex(kv, key) == CHOOSE i \in 1..Len(kv) : kv[i].key = key
KvGet(kv, key) == kv[KvIndex(kv, key)]
KvScalar(key, v) == [key |-> key, isList |-> FALSE, vals |-> <<v>>]

\* kv_map[key] = value / append, as in parse_kvlm lines 304-310
KvAdd(kv, key, value) ==
  IF KvHas(kv, key)
  THEN [kv EXCEPT ![KvIndex(kv, key)] =
          [key |-> key, isList |-> TRUE, vals |-> Append(@.vals, value)]]
  ELSE Append(kv, KvScalar(key, value))

\* kv_map[key] = value (plain assignment: replaces in place, else appends)
KvSet(kv, key, value) ==
  IF KvHas(kv, key)
  THEN [kv EXCEPT ![KvIndex(kv, key)] = KvScalar(key, value)]
  ELSE Append(kv, KvScalar(key, value))

SerializeHeader(e) ==
  Concat([i \in 1..Len(e.vals) |-> e.key \o <<SP>> \o FoldValue(e.vals[i]) \o <<LF>>])

RECURSIVE SerializeHeaders(_)
SerializeHeaders(kv) ==
  IF kv = << >> THEN << >>
  ELSE (IF Head(kv).key = << >> THEN << >> ELSE SerializeHeader(Head(kv)))
       \o SerializeHeaders(Tail(kv))

serialize_kvlm(kv) == SerializeHeaders(kv) \o <<LF>> \o KvGet(kv, << >>).vals[1]

\* The while loop of parse_kvlm (lines 296-300): the index of the LF that
\* ends the value.  -2: raw_block[line_ender + 1] is out of range
\* (IndexError).  -3: find gave -1, so the scan restarts at the front of
\* raw_block; the scan is a function of raw_block alone, so the call then
\* either never leaves the loop or recurses on a start_idx it has already
\* had (RecursionError): no map is returned.
RECURSIVE ValueEnd(_, _)
ValueEnd(raw, line_ender) ==
  LET nxt == PyFind(raw, LF, line_ender + 1)
  IN  IF nxt = -1 THEN -3
      ELSE IF nxt + 1 >= Len(raw) THEN -2
      ELSE IF raw[nxt + 2] # SP THEN nxt
      ELSE ValueEnd(raw, nxt)

KvError == <<[key |-> <<SP>>, isList |-> FALSE, vals |-> << >>]>>

RECURSIVE parse_kvlm(_, _, _)
parse_kvlm(raw, start_idx, kv) ==
  LET space_pos   == PyFind(raw, SP, start_idx)
      newline_pos == PyFind(raw, LF, start_idx)
  IN  IF space_pos < 0 \/ newline_pos < space_pos
      THEN KvSet(kv, << >>, PyFrom(raw, start_idx + 1))
      ELSE LET key        == PySlice(raw, start_idx, space_pos)
               line_ender == ValueEnd(raw, start_idx)
               value      == UnfoldValue(PySlice(raw, space_pos + 1, line_ender))
           IN  IF line_ender < 0 THEN KvError
               ELSE parse_kvlm(raw, line_ender + 1, KvAdd(kv, key, value))

\* ------------------------------------------------------------- hex, ids
IdLen == 40
RawIdLen == 20
MinNameLen == 4

HexChar(v) == IF v < 10 THEN 48 + v ELSE 87 + v
IsHexChar(c) == (c >= 48 /\ c <= 57) \/ (c >= 97 /\ c <= 102) \/ (c >= 65 /\ c <= 70)
HexVal(c) == IF c <= 57 THEN c - 48 ELSE IF c >= 97 THEN c - 87 ELSE c - 55
LowerChar(c) == IF c >= 65 /\ c <= 90 THEN c + 32 ELSE c
Lower(s) == [i \in 1..Len(s) |-> LowerChar(s[i])]

\* bytes.fromhex(sha_hex)
FromHex(h) == [i \in 1..(Len(h) \div 2) |-> 16 * HexVal(h[2 * i - 1]) + HexVal(h[2 * i])]
\* raw_sha.hex()
ToHex(b) == [i \in 1..(2 * Len(b)) |->
               IF i % 2 = 1 THEN HexChar(b[(i + 1) \div 2] \div 16)
               ELSE HexChar(b[i \div 2] % 16)]

\* str(n).encode() and int(b) for n >= 0
RECURSIVE DecimalAscii(_)
DecimalAscii(n) == IF n < 10 THEN <<48 + n>> ELSE DecimalAscii(n \div 10) \o <<48 + (n % 10)>>
IsDecimal(b) == b # << >> /\ \A i \in 1..Len(b) : b[i] >= 48 /\ b[i] <= 57
RECURSIVE ParseInt(_)
ParseInt(b) == IF b = << >> THEN 0 ELSE 10 * ParseInt(SubSeq(b, 1, Len(b) - 1)) + (b[Len(b)] - 48)

\* ------------------------------------------------------------ tree codec
\* TreeObject.serialize: an entry is <<mode, fname, sha_hex>>
SerializeEntry(e) == e[1] \o <<SP>> \o e[2] \o <<NUL>> \o FromHex(e[3])
TreeSerialize(entries) == Concat([i \in 1..Len(entries) |-> SerializeEntry(entries[i])])

\* one pass of the while loop of TreeObject.deserialize (lines 255-265):
\* the entry appended and the next idx; ok = FALSE when
\* mode_str.decode("ascii") raises UnicodeDecodeError
TreeLoopBody(data, idx) ==
  LET space_idx == PyFind(data, SP, idx)
      mode_str  == PySlice(data, idx, space_idx)
      idx1      == space_idx + 1
      null_idx  == PyFind(data, NUL, idx1)
      filename  == PySlice(data, idx1, null_idx)
      idx2      == null_idx + 1
      raw_sha   == PySlice(data, idx2, idx2 + RawIdLen)
  IN  [ok    |-> \A i \in 1..Len(mode_str) : mode_str[i] < 128,
       entry |-> <<mode_str, filename, ToHex(raw_sha)>>,
       idx   |-> idx2 + RawIdLen]

\* TreeObject.deserialize as a function: the entries, or why there are none.
\* idx alone decides the rest of the loop, so a pass that starts from an idx
\* already seen never ends.
RECURSIVE TreeLoop(_, _, _, _)
TreeLoop(data, idx, entries, seen) ==
  IF idx >= Len(data) THEN [status |-> "ok", entries |-> entries]
  ELSE IF idx \in seen THEN [status |-> "loops", entries |-> << >>]
  ELSE LET b == TreeLoopBody(data, idx)
       IN  IF ~b.ok THEN [status |-> "UnicodeDecodeError", entries |-> << >>]
           ELSE TreeLoop(data, b.idx, Append(entries, b.entry), seen \cup {idx})

TreeDeserialize(data) == TreeLoop(data, 0, << >>, {})

\* --------------------------------------------------------------- objects
\* A GitObject is [type, content]: content is content_data (bytes) for a
\* blob, tree_entries for a tree, parsed_kvlm for a commit or a tag.
TagBlob == <<98, 108, 111, 98>>
TagTree == <<116, 114, 101, 101>>
TagCommit == <<99, 111, 109, 109, 105, 116>>
TagTag == <<116, 97, 103>>

ObjTypeBytes(type) ==
  CASE type = "blob" -> TagBlob [] type = "tree" -> TagTree
    [] type = "commit" -> TagCommit [] type = "tag" -> TagTag

\* git_object.serialize()
Serialize(o) ==
  CASE o.type = "blob" -> o.content
    [] o.type = "tree" -> TreeSerialize(o.content)
    [] OTHER -> serialize_kvlm(o.content)

\* faulty variant: the size field counts the NUL too
Frame_SizeOffByOne(o) ==
  LET content == Serialize(o)
  IN  ObjTypeBytes(o.type) \o <<SP>> \o DecimalAscii(Len(content) + 1) \o <<NUL>> \o content

\* write_object lines 200-202: the bytes that are hashed and compressed
Frame(o) ==
  LET content == Serialize(o)
  IN  ObjTypeBytes(o.type) \o <<SP>> \o DecimalAscii(Len(content)) \o <<NUL>> \o content

\* zlib is a lossless codec from outside the repository; only that
\* decompress undoes compress, and that it rejects an empty file, is used
Compress(bytes) == <<"zlib", bytes>>
EmptyFile == << >>
CanDecompress(file) == file # EmptyFile
Decompress(file) == file[2]

\* hashlib.sha1 is modelled by a fixed function of the frame's bytes into
\* 40 lowercase hex characters: a position-weighted byte sum that fills the leading
\* characters of the id, so that ids of different frames differ early, may
\* share a directory, and may share their first four characters.
HashMod == 16 * 16 * 16 * 16 * 16
RECURSIVE WeightedSum(_, _, _)
WeightedSum(bytes, lo, hi) ==
  IF lo > hi THEN 0
  ELSE IF lo = hi THEN (bytes[lo] + 1) * (1 + ((lo * lo * 31 + lo * 7) % 1009))
  ELSE LET mid == (lo + hi) \div 2
       IN  WeightedSum(bytes, lo, mid) + WeightedSum(bytes, mid + 1, hi)
PolyHash(bytes) == (7 + Len(bytes) * 4099 + WeightedSum(bytes, 1, Len(bytes))) % HashMod
RECURSIVE HexDigits(_, _)
HexDigits(v, n) == IF n = 0 THEN << >> ELSE HexDigits(v \div 16, n - 1) \o <<HexChar(v % 16)>>
IdPad == <<55, 50, 48, 48, 48>> \o [i \in 1..26 |-> IF i % 2 = 1 THEN 57 ELSE 101]
IdOfDigest(h) ==
  <<ChA, HexChar(10 + (h % 2)), 99, HexChar((h \div 2) % 2)>> \o HexDigits(h \div 4, 5) \o IdPad
Sha1(frame) == IdOfDigest(PolyHash(frame))
\* ids to refer to from objects written on their own
IdOf(i) == Sha1(<<i>>)

\* the on-disk store: dirs is the set of directories objects/XX, files maps
\* an id whose path objects/id[:2]/id[2:] exists to the file's bytes
DirOf(sha) == PySlice(sha, 0, 2)
RestOf(sha) == PyFrom(sha, 2)

\* read_object: [status, type, content]
read_object(files, sha) ==
  IF sha \notin DOMAIN files THEN [status |-> "FileNotFoundError"]
  ELSE IF ~CanDecompress(files[sha]) THEN [status |-> "zlib.error"]
  ELSE
    LET decompressed == Decompress(files[sha])
        header_end   == PyFind(decompressed, SP, 0)
        obj_type     == PySlice(decompressed, 0, header_end)
        size_null    == PyFind(decompressed, NUL, header_end)
        size_bytes   == PySlice(decompressed, header_end + 1, size_null)
        raw_content  == PyFrom(decompressed, size_null + 1)
    IN  IF ~IsDecimal(size_bytes) THEN [status |-> "ValueError"]
        ELSE IF ParseInt(size_bytes) # Len(decompressed) - (size_null + 1)
          THEN [status |-> "Corrupted"]
        ELSE IF obj_type = TagCommit \/ obj_type = TagTag THEN
          LET kv == parse_kvlm(raw_content, 0, << >>)
          IN  IF kv = KvError THEN [status |-> "IndexError"]
              ELSE [status |-> "ok", content |-> kv,
                    type |-> IF obj_type = TagCommit THEN "commit" ELSE "tag"]
        ELSE IF obj_type = TagTree THEN
          LET t == TreeDeserialize(raw_content)
          IN  IF t.status # "ok" THEN [status |-> t.status]
              ELSE [status |-> "ok", type |-> "tree", content |-> t.entries]
        ELSE IF obj_type = TagBlob
          THEN [status |-> "ok", type |-> "blob", content |-> raw_content]
        ELSE [status |-> "UnknownType"]

\* re.search(r"^[0-9A-Fa-f]{4,40}$", name): $ also matches before a final LF
AllHex(s) == \A i \in 1..Len(s) : IsHexChar(s[i])
NameMatches(name) ==
  \/ AllHex(name) /\ Len(name) >= MinNameLen /\ Len(name) <= IdLen
  \/ /\ Len(name) > MinNameLen /\ name[Len(name)] = LF
     /\ AllHex(PySlice(name, 0, -1)) /\ Len(name) - 1 <= IdLen

StartsWith(s, prefix) == Len(prefix) <= Len(s) /\ SubSeq(s, 1, Len(prefix)) = prefix

\* faulty variant: a file matches only when its whole name is the remainder
find_object_WholeName(dirs, files, rawname) ==
  IF ~NameMatches(rawname) THEN {[status |-> "InvalidName"]}
  ELSE
    LET name == Lower(rawname)
        remainder == RestOf(name)
        matches == {h \in DOMAIN files : DirOf(h) = DirOf(name) /\ RestOf(h) = remainder}
    IN  IF Len(name) = IdLen THEN {[status |-> "ok", sha |-> name]}
        ELSE IF DirOf(name) \notin dirs THEN {[status |-> "FileNotFoundError"]}
        ELSE IF matches = {} THEN {[status |-> "None"]}
        ELSE {[status |-> "ok", sha |-> h] : h \in matches}

\* find_object: the set of results the call can have, one per order in which
\* os.listdir may list the directory.  [status |-> "None"] is the return of
\* None, [status |-> "ok", sha] the return of an id.
find_object(dirs, files, rawname) ==
  IF ~NameMatches(rawname) THEN {[status |-> "InvalidName"]}
  ELSE
    LET name == Lower(rawname)
        remainder == RestOf(name)
        matches == {h \in DOMAIN files : DirOf(h) = DirOf(name) /\ StartsWith(RestOf(h), remainder)}
    IN  IF Len(name) = IdLen THEN {[status |-> "ok", sha |-> name]}
        ELSE IF DirOf(name) \notin dirs THEN {[status |-> "FileNotFoundError"]}
        ELSE IF matches = {} THEN {[status |-> "None"]}
        ELSE {[status |-> "ok", sha |-> h] : h \in matches}

\* ------------------------------------------------------------ repository
MaxObjects == 3
MaxStoreObjects == 2

\* names and contents the commands are run on
NameA == <<97, 46, 116, 120, 116>>            \* a.txt
NameB == <<98, 46, 116, 120, 116>>            \* b.txt
NameD == <<97>>                               \* a, a directory
NameSub == <<115, 117, 98>>                   \* sub
NameGit == <<46, 103, 105, 116>>              \* .git
NameV1 == <<118, 49>>                         \* v1
NameHEAD == <<72, 69, 65, 68>>                \* HEAD
DataA == <<65, LF>>
DataEmpty == << >>
Author == <<78, SP, 60, 101, 62>>             \* N <e>
Message == <<109>>                            \* m
Mode644 == <<49, 48, 48, 54, 52, 52>>         \* 100644
ModeDir == <<52, 48, 48, 48, 48>>             \* 40000
KeyTree == TagTree
KeyParent == <<112, 97, 114, 101, 110, 116>>
KeyAuthor == <<97, 117, 116, 104, 111, 114>>
KeyCommitter == <<99, 111, 109, 109, 105, 116, 116, 101, 114>>
KeyObject == <<111, 98, 106, 101, 99, 116>>
KeyType == <<116, 121, 112, 101>>
KeyTag == TagTag
KeyTagger == <<116, 97, 103, 103, 101, 114>>
\* "ref: refs/heads/master\n", the HEAD create_repo writes (line 90)
RefMaster == <<114, 101, 102, 58, SP, 114, 101, 102, 115, 47, 104, 101, 97, 100, 115, 47,
               109, 97, 115, 116, 101, 114, LF>>

Blob(data) == [type |-> "blob", content |-> data]
Tree(entries) == [type |-> "tree", content |-> entries]
Commit(kv) == [type |-> "commit", content |-> kv]
TagObj(kv) == [type |-> "tag", content |-> kv]

NoOp == [cmd |-> "none"]
NoRet == [cmd |-> "none"]
EmptyMap == [x \in {} |-> x]
MapSet(f, k, v) == [x \in DOMAIN f \cup {k} |-> IF x = k THEN v ELSE f[x]]
MapDrop(f, ks) == [x \in DOMAIN f \ ks |-> f[x]]

\* the workspace: a path is the sequence of names below the workspace root;
\* .git itself is not in the map, it is always there and never empty
File(data) == [kind |-> "file", data |-> data]
Dir == [kind |-> "dir", data |-> << >>]
ChildNames(wsp, base, kind) ==
  {p[Len(p)] : p \in {q \in DOMAIN wsp : /\ Len(q) = Len(base) + 1
                                        /\ SubSeq(q, 1, Len(base)) = base
                                        /\ wsp[q].kind = kind}}
HasChildren(wsp, base) ==
  ChildNames(wsp, base, "file") \cup ChildNames(wsp, base, "dir") # {}
\* what os.walk lists as dirs of a directory
ListDirs(wsp, base) ==
  ChildNames(wsp, base, "dir") \cup (IF base = << >> THEN {NameGit} ELSE {})

\* the workspaces the commands are run in
Workspaces ==
  {[p \in top \cup sub |-> IF p \in {<<NameD>>} THEN Dir
                           ELSE IF p = <<NameB>> THEN File(DataEmpty) ELSE File(DataA)] :
     top \in SUBSET {<<NameA>>, <<NameB>>},
     sub \in {{}, {<<NameD>>}, {<<NameD>>, <<NameD, NameB>>}}}

\* the repository create_repo leaves (lines 78-94)
InitGit ==
  /\ objdirs = {}
  /\ objfiles = EmptyMap
  /\ head = RefMaster
  /\ tags = EmptyMap
  /\ pc = "idle"
  /\ op = NoOp
  /\ ret = NoRet
\* ... in a workspace to which files have since been added
InitRepo == InitGit /\ ws \in Workspaces /\ KvIdle /\ TreeIdle
\* ... in the empty workspace create_repo asks for
InitStore == InitGit /\ ws = EmptyMap /\ KvIdle /\ TreeIdle
\* no repository: a codec is run on its own
RepoIdle ==
  /\ objdirs = {} /\ objfiles = EmptyMap /\ head = RefMaster /\ tags = EmptyMap
  /\ ws = EmptyMap /\ pc = "off"
  /\ op = NoOp /\ ret = NoRet

\* ensure_git_directory(repository, "objects", sha[:2], create=True)
ensure_objects_dir(dirs, sha) == dirs \cup {DirOf(sha)}
\* what open(out_path, "wb") leaves at the path
OpenForWrite(files, sha) == MapSet(files, sha, EmptyFile)
\* what output_stream.write(zlib.compress(header)) and the close leave
FlushFile(files, sha, frame) == MapSet(files, sha, Compress(frame))

\* lines 205-209: the frame header is stored under sha_value
StoreFrame(st, sha_value, header) ==
  [dirs  |-> ensure_objects_dir(st.dirs, sha_value),
   files |-> FlushFile(OpenForWrite(st.files, sha_value), sha_value, header),
   sha   |-> sha_value]
\* lines 203-209
HashFrame(st, header) == StoreFrame(st, Sha1(header), header)
\* write_object run from start to end on the store st = [dirs, files]
write_object(st, o) == HashFrame(st, Frame(o))

WithinCap(files) == Cardinality(DOMAIN files) <= MaxObjects

\* write_object, lines 200-203: serialize, frame, hash; the caller's locals
\* are kept in op
WriteBegin(cmd, o, locals) ==
  LET header == Frame(o)
      sha_value == Sha1(header)
  IN  /\ WithinCap(OpenForWrite(objfiles, sha_value))
      /\ op' = [cmd |-> cmd, obj |-> o, frame |-> header, sha |-> sha_value, locals |-> locals]
      /\ pc' = "w_mkdir"
      /\ ret' = NoRet

\* line 205: ensure_git_file(..., create=True)
WriteMkdir ==
  /\ pc = "w_mkdir"
  /\ objdirs' = ensure_objects_dir(objdirs, op.sha)
  /\ pc' = "w_open"
  /\ UNCHANGED <<objfiles, head, tags, ws, op, ret>>
  /\ UNCHANGED <<kvVars, treeVars>>

\* line 206: open(out_path, "wb") creates the file or truncates it
WriteOpen ==
  /\ pc = "w_open"
  /\ objfiles' = OpenForWrite(objfiles, op.sha)
  /\ pc' = "w_write"
  /\ UNCHANGED <<objdirs, head, tags, ws, op, ret>>
  /\ UNCHANGED <<kvVars, treeVars>>

\* lines 207-209: write the compressed frame, close, return sha_value to
\* the caller: write_object called on its own and hash-object are done,
\* command_tag goes on to write the ref
WriteFlush ==
  /\ pc = "w_write"
  /\ objfiles' = FlushFile(objfiles, op.sha, op.frame)
  /\ IF op.cmd = "tag"
     THEN pc' = "tag_open" /\ ret' = ret /\ op' = op
     ELSE /\ pc' = "done"
          /\ ret' = [cmd |-> op.cmd, status |-> "ok", sha |-> op.sha, obj |-> op.obj]
          /\ op' = NoOp
  /\ UNCHANGED <<objdirs, head, tags, ws>>
  /\ UNCHANGED <<kvVars, treeVars>>

\* the process is stopped between two steps of a command
Crash ==
  /\ pc \notin {"idle", "done"}
  /\ pc' = "idle"
  /\ op' = NoOp
  /\ UNCHANGED <<objdirs, objfiles, head, tags, ws, ret>>
  /\ UNCHANGED <<kvVars, treeVars>>

\* the command has printed its result or its error: the process exits
Exit ==
  /\ pc = "done"
  /\ pc' = "idle"
  /\ ret' = NoRet
  /\ UNCHANGED <<objdirs, objfiles, head, tags, ws, op>>
  /\ UNCHANGED <<kvVars, treeVars>>

\* write_object called on its own
LibWriteObject(o) ==
  /\ pc = "idle"
  /\ WriteBegin("write_object", o, << >>)
  /\ UNCHANGED <<objdirs, objfiles, head, tags, ws>>
  /\ UNCHANGED <<kvVars, treeVars>>

\* command_hash_object with -w on a file of the workspace
HashObject(path) ==
  /\ pc = "idle"
  /\ path \in DOMAIN ws /\ ws[path].kind = "file"
  /\ WriteBegin("hash_object", Blob(ws[path].data), << >>)
  /\ UNCHANGED <<objdirs, objfiles, head, tags, ws>>
  /\ UNCHANGED <<kvVars, treeVars>>

\* command_rev_parse
RevParse(name) ==
  /\ pc = "idle"
  /\ \E r \in find_object(objdirs, objfiles, name) :
       ret' = [cmd |-> "rev_parse", name |-> name, result |-> r]
  /\ pc' = "done"
  /\ UNCHANGED <<objdirs, objfiles, head, tags, ws, op>>
  /\ UNCHANGED <<kvVars, treeVars>>

\* ------------------------------------------------------ build_tree_object
RECURSIVE BytesLess(_, _)
BytesLess(a, b) ==
  IF a = << >> THEN b # << >>
  ELSE IF b = << >> THEN FALSE
  ELSE IF a[1] # b[1] THEN a[1] < b[1]
  ELSE BytesLess(Tail(a), Tail(b))

\* list.sort() on names
RECURSIVE Sorted(_)
Sorted(S) ==
  IF S = {} THEN << >>
  ELSE LET m == CHOOSE x \in S : \A y \in S \ {x} : BytesLess(x, y)
       IN  <<m>> \o Sorted(S \ {m})

\* os.path.join(a, b) for a relative b
JoinPath(a, b) ==
  IF a = << >> THEN b ELSE IF a[Len(a)] = 47 THEN a \o b ELSE a \o <<47>> \o b
\* os.path.relpath(root_path, base_dir) on the one pass the walk makes,
\* where root_path is base_dir: "."
RelativeRoot == <<46>>

RECURSIVE build_tree_object(_, _, _)
RECURSIVE AddBlobs(_, _, _, _)
RECURSIVE AddTrees(_, _, _, _)

\* tree_items.append((mode, rel_path, sha)) after the write w that gave sha
AddItem(items, mode, rel_path, w) ==
  [st |-> [dirs |-> w.dirs, files |-> w.files], items |-> Append(items, <<mode, rel_path, w.sha>>)]

\* faulty variant: the blob's id is computed and listed, the blob is not written
RECURSIVE AddBlobs_NotStored(_, _, _, _)
AddBlobs_NotStored(wsp, base, files, acc) ==
  IF files = << >> THEN acc
  ELSE AddBlobs_NotStored(wsp, base, Tail(files),
         [st    |-> acc.st,
          items |-> Append(acc.items,
                           <<Mode644, JoinPath(RelativeRoot, Head(files)),
                             Sha1(Frame(Blob(wsp[Append(base, Head(files))].data)))>>)])

\* lines 483-488: acc is [st, items]
AddBlobs(wsp, base, files, acc) ==
  IF files = << >> THEN acc
  ELSE AddBlobs(wsp, base, Tail(files),
                AddItem(acc.items, Mode644, JoinPath(RelativeRoot, Head(files)),
                        write_object(acc.st, Blob(wsp[Append(base, Head(files))].data))))

\* lines 491-494
AddTrees(wsp, base, dirs, acc) ==
  IF dirs = << >> THEN acc
  ELSE AddTrees(wsp, base, Tail(dirs),
                AddItem(acc.items, ModeDir, JoinPath(RelativeRoot, Head(dirs)),
                        build_tree_object(wsp, Append(base, Head(dirs)), acc.st)))

\* lines 499-503
WriteTree(acc) == write_object(acc.st, Tree(acc.items))

\* build_tree_object(repo, base_dir) on the store st: the store it leaves
\* and the sha it returns
build_tree_object(wsp, base, st) ==
  WriteTree(AddTrees(wsp, base, Sorted(ListDirs(wsp, base) \ {NameGit}),
                     AddBlobs(wsp, base, Sorted(ChildNames(wsp, base, "file")),
                              [st |-> st, items |-> << >>])))

\* build_tree_object has returned w
BuildTreeEnd(w, base) ==
  /\ WithinCap(w.files)
  /\ objdirs' = w.dirs
  /\ objfiles' = w.files
  /\ ret' = [cmd |-> "build_tree", status |-> "ok", sha |-> w.sha, base |-> base]

\* build_tree_object called on its own, on the workspace or a directory of it
BuildTree(base) ==
  /\ pc = "idle"
  /\ base = << >> \/ (base \in DOMAIN ws /\ ws[base].kind = "dir")
  /\ BuildTreeEnd(build_tree_object(ws, base, [dirs |-> objdirs, files |-> objfiles]), base)
  /\ pc' = "done"
  /\ UNCHANGED <<head, tags, ws, op>>
  /\ UNCHANGED <<kvVars, treeVars>>

\* ---------------------------------------------------------- command_commit
\* lines 453-459
commit_map(tree_sha, has_parent, head_sha, author, message) ==
  LET k1 == KvSet(<< >>, KeyTree, tree_sha)
      k2 == IF has_parent THEN KvSet(k1, KeyParent, head_sha) ELSE k1
      k3 == KvSet(k2, KeyAuthor, author)
      k4 == KvSet(k3, KeyCommitter, author)
  IN  KvSet(k4, << >>, message)

\* command_commit raises: the store and HEAD are as they were
commit_raise(status, st, hd) ==
  [status |-> status, dirs |-> st.dirs, files |-> st.files, head |-> hd, sha |-> << >>]

\* lines 441-443: how reading the parent and taking its tree header ends
parent_status(parent) ==
  IF parent.status # "ok" THEN parent.status
  ELSE IF parent.type \notin {"commit", "tag"} THEN "AttributeError"
  ELSE IF ~KvHas(parent.content, KeyTree) THEN "KeyError"
  ELSE "ok"

\* lines 463-467: write_object has returned c; HEAD is written
commit_head(c) ==
  [status |-> "ok", dirs |-> c.dirs, files |-> c.files, head |-> c.sha \o <<LF>>, sha |-> c.sha]

\* lines 451-461: build_tree_object has returned t
commit_on_tree(t, has_parent, head_sha, author, message) ==
  commit_head(write_object([dirs |-> t.dirs, files |-> t.files],
                           Commit(commit_map(t.sha, has_parent, head_sha, author, message))))

\* lines 448-461, after the parent was read, or was not there to read
commit_after_parent(status, r, wsp, st, hd, author, message) ==
  IF status # "ok" THEN commit_raise(status, st, hd)
  ELSE commit_on_tree(build_tree_object(wsp, << >>, st), r.status = "ok",
                      IF r.status = "ok" THEN r.sha ELSE << >>, author, message)

\* command_commit from the result r of find_object(repo, "HEAD") on: what it
\* leaves in the store and in HEAD, and how it ends
command_commit(r, wsp, st, hd, author, message) ==
  IF r.status \notin {"ok", "None"} THEN commit_raise(r.status, st, hd)
  ELSE commit_after_parent(IF r.status = "ok" THEN parent_status(read_object(st.files, r.sha)) ELSE "ok",
                           r, wsp, st, hd, author, message)

\* command_commit has ended as c says
CommitEnd(c) ==
  /\ WithinCap(c.files)
  /\ objdirs' = c.dirs
  /\ objfiles' = c.files
  /\ head' = c.head
  /\ ret' = [cmd |-> "commit", status |-> c.status, sha |-> c.sha, before |-> head]

CommitCmd(author, message) ==
  /\ pc = "idle"
  /\ \E r \in find_object(objdirs, objfiles, NameHEAD) :
       CommitEnd(command_commit(r, ws, [dirs |-> objdirs, files |-> objfiles], head, author, message))
  /\ pc' = "done"
  /\ UNCHANGED <<tags, ws, op>>
  /\ UNCHANGED <<kvVars, treeVars>>

\* ------------------------------------------------------------- command_tag
\* lines 513-518
tag_map(target_sha, tagname, author, message) ==
  LET k1 == KvSet(<< >>, KeyObject, target_sha)
      k2 == KvSet(k1, KeyType, TagCommit)
      k3 == KvSet(k2, KeyTag, tagname)
      k4 == KvSet(k3, KeyTagger, author)
  IN  KvSet(k4, << >>, message)

\* faulty variant: the ref is written before the tag object
TagCmd_RefFirst(tagname, object, author, message) ==
  /\ pc = "idle"
  /\ \E r \in find_object(objdirs, objfiles, object) :
       /\ r.status = "ok"
       /\ LET o == TagObj(tag_map(r.sha, tagname, author, message))
          IN  /\ WriteBegin("tag", o, tagname)
              /\ tags' = MapSet(tags, tagname, Sha1(Frame(o)) \o <<LF>>)
  /\ UNCHANGED <<objdirs, objfiles, head, ws>>
  /\ UNCHANGED <<kvVars, treeVars>>

\* lines 507-520, up to the hashing in write_object
TagCmd(tagname, object, author, message) ==
  /\ pc = "idle"
  /\ \E r \in find_object(objdirs, objfiles, object) :
       IF r.status = "ok"
       THEN WriteBegin("tag", TagObj(tag_map(r.sha, tagname, author, message)), tagname)
       ELSE /\ ret' = [cmd |-> "tag", status |-> IF r.status = "None" THEN "CannotLocate" ELSE r.status]
            /\ pc' = "done"
            /\ op' = op
  /\ UNCHANGED <<objdirs, objfiles, head, tags, ws>>
  /\ UNCHANGED <<kvVars, treeVars>>

\* line 522: open(tag_path, "w")
TagOpen ==
  /\ pc = "tag_open"
  /\ tags' = MapSet(tags, op.locals, << >>)
  /\ pc' = "tag_write"
  /\ UNCHANGED <<objdirs, objfiles, head, ws, op, ret>>
  /\ UNCHANGED <<kvVars, treeVars>>

\* line 523: tag_file.write(tag_sha + "\n"), and the close
TagWrite ==
  /\ pc = "tag_write"
  /\ tags' = MapSet(tags, op.locals, op.sha \o <<LF>>)
  /\ pc' = "done"
  /\ op' = NoOp
  /\ ret' = [cmd |-> "tag", status |-> "ok", sha |-> op.sha, obj |-> op.obj]
  /\ UNCHANGED <<objdirs, objfiles, head, ws>>
  /\ UNCHANGED <<kvVars, treeVars>>

\* -------------------------------------------------------- command_checkout
\* command_checkout raises before it has written anything
CheckoutRaise(status) ==
  /\ ret' = [cmd |-> "checkout", status |-> status]
  /\ pc' = "done"
  /\ op' = op

\* lines 402-403: read_object has returned c, or raised
CheckoutRead(sha, c) ==
  IF c.status # "ok" THEN CheckoutRaise(c.status)
  ELSE IF c.type \notin {"commit", "tag"} THEN CheckoutRaise("AttributeError")
  ELSE IF ~KvHas(c.content, KeyTree) THEN CheckoutRaise("KeyError")
  ELSE IF KvGet(c.content, KeyTree).isList THEN CheckoutRaise("AttributeError")
  ELSE /\ pc' = "co_open"
       /\ op' = [cmd |-> "checkout", sha |-> sha, tree |-> KvGet(c.content, KeyTree).vals[1]]
       /\ ret' = NoRet

\* lines 397-403: resolve the name, read the commit, take its tree header
CheckoutCmd(name) ==
  /\ pc = "idle"
  /\ \E r \in find_object(objdirs, objfiles, name) :
       IF r.status = "None" THEN CheckoutRaise("UnknownCommit")
       ELSE IF r.status # "ok" THEN CheckoutRaise(r.status)
       ELSE CheckoutRead(r.sha, read_object(objfiles, r.sha))
  /\ UNCHANGED <<objdirs, objfiles, head, tags, ws>>
  /\ UNCHANGED <<kvVars, treeVars>>

\* line 406: open(HEAD, "w")
CheckoutHeadOpen ==
  /\ pc = "co_open"
  /\ head' = << >>
  /\ pc' = "co_write"
  /\ UNCHANGED <<objdirs, objfiles, tags, ws, op, ret>>
  /\ UNCHANGED <<kvVars, treeVars>>

\* line 407: head_file.write(commit_sha), and the close
CheckoutHeadWrite ==
  /\ pc = "co_write"
  /\ head' = op.sha
  /\ pc' = "co_clear"
  /\ UNCHANGED <<objdirs, objfiles, tags, ws, op, ret>>
  /\ UNCHANGED <<kvVars, treeVars>>

RECURSIVE Perms(_)
Perms(S) == IF S = {} THEN {<< >>} ELSE UNION {{<<x>> \o q : q \in Perms(S \ {x})} : x \in S}

\* lines 415-416 at the workspace root: os.rmdir on each listed directory in
\* turn; rmdir raises OSError on a directory that is not empty, and .git
\* never is
RECURSIVE RmdirEach(_, _)
RmdirEach(wsp, dirs) ==
  IF dirs = << >> THEN [ws |-> wsp, raised |-> FALSE]
  ELSE IF Head(dirs) = NameGit \/ HasChildren(wsp, <<Head(dirs)>>)
    THEN [ws |-> wsp, raised |-> TRUE]
  ELSE RmdirEach(MapDrop(wsp, {<<Head(dirs)>>}), Tail(dirs))

\* lines 410-416: the pass of the os.walk loop at the workspace root, which
\* is the first; dirs in the order the directory is listed.  A later pass
\* finds its directory removed (the walk is top-down).
ClearWorkspace(wsp, dirs) ==
  RmdirEach(MapDrop(wsp, {<<f>> : f \in ChildNames(wsp, << >>, "file")}), dirs)

\* the path below dest that the entry name leads to ("./a.txt" is a.txt)
RECURSIVE SplitPath(_, _)
SplitPath(name, part) ==
  LET done == IF part = << >> \/ part = <<46>> THEN << >> ELSE <<part>>
  IN  IF name = << >> THEN done
      ELSE IF Head(name) = 47 THEN done \o SplitPath(Tail(name), << >>)
      ELSE SplitPath(Tail(name), Append(part, Head(name)))

RECURSIVE recursive_checkout(_, _, _, _)
RECURSIVE checkout_entry(_, _, _, _, _, _, _)
RECURSIVE checkout_rest(_, _, _, _)

\* lines 428-429, back from the recursive call, which ended as sub says
checkout_rest(files, entries, dest, sub) ==
  IF sub.status # "ok" THEN sub
  ELSE recursive_checkout(files, Tail(entries), dest, sub.ws)

\* lines 425-433 for the first entry: its mode, its target_path, and what
\* read_object gives for its sha
checkout_entry(files, entries, dest, wsp, mode, target, obj) ==
  IF mode = ModeDir THEN
    IF target \in DOMAIN wsp THEN [status |-> "FileExistsError", ws |-> wsp]
    ELSE IF obj.status # "ok" THEN [status |-> obj.status, ws |-> MapSet(wsp, target, Dir)]
    ELSE IF obj.type # "tree" THEN [status |-> "AttributeError", ws |-> MapSet(wsp, target, Dir)]
    ELSE checkout_rest(files, entries, dest,
                       recursive_checkout(files, obj.content, target, MapSet(wsp, target, Dir)))
  ELSE IF target \in DOMAIN wsp /\ wsp[target].kind = "dir"
    THEN [status |-> "IsADirectoryError", ws |-> wsp]
  ELSE IF obj.status # "ok"
    THEN [status |-> obj.status, ws |-> MapSet(wsp, target, File(<< >>))]
  ELSE recursive_checkout(files, Tail(entries), dest,
                          MapSet(wsp, target, File(Serialize(obj))))

\* recursive_checkout: the workspace it leaves and how it ends
recursive_checkout(files, entries, dest, wsp) ==
  IF entries = << >> THEN [status |-> "ok", ws |-> wsp]
  ELSE checkout_entry(files, entries, dest, wsp, Head(entries)[1],
                      dest \o SplitPath(Head(entries)[2], << >>),
                      read_object(files, Head(entries)[3]))

\* command_checkout ends: the workspace it leaves, and its result or error
CheckoutDone(status, w) ==
  /\ ws' = w
  /\ ret' = [cmd |-> "checkout", status |-> status,
             sha |-> op.sha, tree |-> op.tree, before |-> ws]

\* line 420: recursive_checkout has ended as written says
CheckoutWritten(written) == CheckoutDone(written.status, written.ws)

\* lines 419-420, after the workspace was cleared as cleared says
CheckoutTree(cleared, tree_obj) ==
  IF cleared.raised THEN CheckoutDone("OSError", cleared.ws)
  ELSE IF tree_obj.status # "ok" THEN CheckoutDone(tree_obj.status, cleared.ws)
  ELSE IF tree_obj.type # "tree" THEN CheckoutDone("AttributeError", cleared.ws)
  ELSE CheckoutWritten(recursive_checkout(objfiles, tree_obj.content, << >>, cleared.ws))

\* lines 410-420: clear the workspace, then write out the tree
CheckoutClear ==
  /\ pc = "co_clear"
  /\ \E dirs \in Perms(ListDirs(ws, << >>)) :
       CheckoutTree(ClearWorkspace(ws, dirs), read_object(objfiles, op.tree))
  /\ pc' = "done"
  /\ op' = NoOp
  /\ UNCHANGED <<objdirs, objfiles, head, tags>>
  /\ UNCHANGED <<kvVars, treeVars>>

\* ------------------------------------------------------- the command set
\* names given to tag and checkout: HEAD, the ids write_object has printed,
\* whole or cut to five characters, and an id of no stored object
CommandNames ==
  {NameHEAD, IdOf(0)} \cup DOMAIN objfiles \cup {PySlice(h, 0, 5) : h \in DOMAIN objfiles}

Upper(s) == [i \in 1..Len(s) |-> IF s[i] >= 97 /\ s[i] <= 122 THEN s[i] - 32 ELSE s[i]]
\* names given to rev-parse
RevNames ==
  {PySlice(h, 0, n) : h \in DOMAIN objfiles, n \in {MinNameLen, 5, IdLen - 1}}
  \cup {Upper(PySlice(h, 0, 5)) : h \in DOMAIN objfiles}
  \cup {NameHEAD, IdOf(0), Upper(IdOf(0)), PySlice(IdOf(0), 0, MinNameLen - 1),
        PySlice(IdOf(0), 0, 5) \o <<LF>>,
        <<ChA, ChA, 99, 48, 103>>, <<ChA, ChA, 102, 102>>, <<ChA, ChB, 102, 102>>,
        <<102, 102, 102, 102>>}

\* commit objects written through write_object: a stored tree, no parent
StoredOfType(type) ==
  {h \in DOMAIN objfiles : LET r == read_object(objfiles, h) IN r.status = "ok" /\ r.type = type}
LibCommits == {Commit(commit_map(t, FALSE, << >>, Author, Message)) : t \in StoredOfType("tree")}

Next ==
  \/ \E path \in DOMAIN ws : HashObject(path)
  \/ \E base \in {<< >>, <<NameD>>} : BuildTree(base)
  \/ \E o \in LibCommits : LibWriteObject(o)
  \/ WriteMkdir
  \/ WriteOpen
  \/ WriteFlush
  \/ CommitCmd(Author, Message)
  \/ \E object \in CommandNames : TagCmd(NameV1, object, Author, Message)
  \/ TagOpen
  \/ TagWrite
  \/ \E name \in CommandNames : CheckoutCmd(name)
  \/ CheckoutHeadOpen
  \/ CheckoutHeadWrite
  \/ CheckoutClear
  \/ \E name \in RevNames : RevParse(name)
  \/ Exit

\* ------------------------------------------- the store used on its own
\* write_object called with objects of every kind, also when stopped
KvOf(pairs, trailer) ==
  [i \in 1..(Len(pairs) + 1) |->
     IF i <= Len(pairs) THEN pairs[i] ELSE KvScalar(<< >>, trailer)]
KvList(key, vs) == [key |-> key, isList |-> TRUE, vals |-> vs]

StoreTrees ==
  {<< >>, <<<<Mode644, NameA, IdOf(0)>>>>,
   <<<<Mode644, NameA, IdOf(0)>>, <<ModeDir, NameSub, IdOf(2)>>>>,
   <<<<ModeDir, NameSub, IdOf(0)>>, <<Mode644, NameB, IdOf(1)>>>>}

Messages == {Message, <<109, 115, 103, LF, 108, 50, LF>>}
Committers == {<<Author, Message>>, <<<<78, LF, LF, SP, 101>>, <<109, 115, 103, LF, 108, 50, LF>>>>}
CommitMaps ==
  {KvOf(<<KvScalar(KeyTree, IdOf(0))>> \o parents
        \o <<KvScalar(KeyAuthor, Author), KvScalar(KeyCommitter, c[1])>>, c[2]) :
     parents \in {<< >>, <<KvScalar(KeyParent, IdOf(1))>>,
                  <<KvList(KeyParent, <<IdOf(1), IdOf(2)>>)>>},
     c \in Committers}
TagMaps == {tag_map(IdOf(0), NameV1, Author, msg) : msg \in Messages}

StoreObjects ==
  {Blob(d) : d \in {DataEmpty, DataA, <<NUL, SP, LF>>}}
  \cup {Tree(v) : v \in StoreTrees}
  \cup {Commit(kv) : kv \in CommitMaps}
  \cup {TagObj(kv) : kv \in TagMaps}

NextStore ==
  \/ \E o \in StoreObjects :
       LibWriteObject(o) /\ Cardinality(DOMAIN objfiles \cup {op'.sha}) <= MaxStoreObjects
  \/ WriteMkdir
  \/ WriteOpen
  \/ WriteFlush
  \/ Crash
  \/ Exit

\* ------------------------------------------- commands that are stopped
\* commit, tag and checkout, and the writes they build on, with the process
\* stopped between any two steps
StopWorkspaces == {EmptyMap, [p \in {<<NameA>>} |-> File(DataA)]}
InitStop == InitGit /\ ws \in StopWorkspaces /\ KvIdle /\ TreeIdle

NextStop ==
  \/ BuildTree(<< >>)
  \/ \E o \in LibCommits : LibWriteObject(o)
  \/ WriteMkdir
  \/ WriteOpen
  \/ WriteFlush
  \/ CommitCmd(Author, Message)
  \/ \E object \in CommandNames : TagCmd(NameV1, object, Author, Message)
  \/ TagOpen
  \/ TagWrite
  \/ \E name \in CommandNames : CheckoutCmd(name)
  \/ CheckoutHeadOpen
  \/ CheckoutHeadWrite
  \/ CheckoutClear
  \/ Crash
  \/ Exit

\* ---------------------------------------------------- KVLM codec run
MaxValLen == 2
MaxVals == 2
MaxOtherLen == 1

KvAlphabet == {SP, LF, ChA}
KvValues == BytesUpTo(KvAlphabet, MaxValLen)
\* the values a list is made of
KvListValues == BytesUpTo(KvAlphabet, 1) \cup {<<LF, SP>>, <<ChA, LF>>}
KvOtherValues == BytesUpTo(KvAlphabet, MaxOtherLen)
KvTrailers == {<< >>, <<SP>>, <<LF>>, <<ChA, SP, ChB, LF>>, <<LF, SP, ChA>>}

\* one header under key "a": a scalar, or a list of 1..MaxVals values
KvMainEntries ==
  {KvScalar(<<ChA>>, v) : v \in KvValues}
  \cup {[key |-> <<ChA>>, isList |-> TRUE, vals |-> vs] :
          vs \in SeqsUpTo(KvListValues, MaxVals) \ {<< >>}}
\* an optional second header under key "b", before or after it
KvOtherEntries == {KvScalar(<<ChB>>, v) : v \in KvOtherValues}

KvlmInputs ==
  LET hdrs == {<< >>} \cup {<<e>> : e \in KvMainEntries}
              \cup {<<e, f>> : e \in KvMainEntries, f \in KvOtherEntries}
              \cup {<<f, e>> : e \in KvMainEntries, f \in KvOtherEntries}
  IN  {Append(h, KvScalar(<< >>, t)) : h \in hdrs, t \in KvTrailers}

InitKvlm ==
  /\ kv_map \in KvlmInputs
  /\ raw_block = << >>
  /\ kv_parsed = << >>
  /\ kv_pc = "new"
  /\ TreeIdle /\ RepoIdle

KvSerialize ==
  /\ kv_pc = "new"
  /\ raw_block' = serialize_kvlm(kv_map)
  /\ kv_pc' = "wire"
  /\ UNCHANGED <<kv_map, kv_parsed>>
  /\ UNCHANGED <<treeVars, repoVars>>

KvParse ==
  /\ kv_pc = "wire"
  /\ kv_parsed' = parse_kvlm(raw_block, 0, << >>)
  /\ kv_pc' = "parsed"
  /\ UNCHANGED <<kv_map, raw_block>>
  /\ UNCHANGED <<treeVars, repoVars>>

NextKvlm == KvSerialize \/ KvParse

\* the ordered multimap a kv_map stands for: header keys in order, each
\* with its values in order, and the trailer
KvHeaders(kv) == SelectSeq(kv, LAMBDA e : e.key # << >>)
KvMultimap(kv) ==
  [hdrs    |-> [i \in 1..Len(KvHeaders(kv)) |->
                 <<KvHeaders(kv)[i].key, KvHeaders(kv)[i].vals>>],
   trailer |-> IF KvHas(kv, << >>) THEN KvGet(kv, << >>).vals ELSE << >>]

\* ----------------------------------------------- tree decoding, by step
MaxPasses == 3
MaxTreeEntries == 2

TreeEntryChoices ==
  {<<Mode644, NameA, IdOf(0)>>, <<Mode644, NameB, IdOf(1)>>,
   <<ModeDir, NameSub, IdOf(0)>>, <<ModeDir, NameSub, IdOf(2)>>}
TreeVectors == SeqsUpTo(TreeEntryChoices, MaxTreeEntries)

DropByte(b, i) == SubSeq(b, 1, i - 1) \o SubSeq(b, i + 1, Len(b))
\* encoded entry lists, whole, cut short at any length, or with the
\* delimiter after the mode or after the name of an entry taken out
TreePayloads ==
  LET whole == {TreeSerialize(v) : v \in TreeVectors}
  IN  whole
      \cup {PySlice(b, 0, n) : b \in whole, n \in 0..(MaxTreeEntries * 35)}
      \cup UNION {{DropByte(b, i) : i \in {j \in 1..Len(b) : b[j] \in {SP, NUL}}} : b \in whole}

InitTree ==
  /\ t_data \in TreePayloads
  /\ t_idx = 0
  /\ t_entries = << >>
  /\ t_pc = "loop"
  /\ KvIdle /\ RepoIdle

\* one pass of the while loop
TreePass ==
  /\ t_pc = "loop"
  /\ t_idx < Len(t_data)
  /\ Len(t_entries) < MaxPasses
  /\ LET b == TreeLoopBody(t_data, t_idx)
     IN  IF b.ok
         THEN t_idx' = b.idx /\ t_entries' = Append(t_entries, b.entry) /\ t_pc' = "loop"
         ELSE t_idx' = t_idx /\ t_entries' = t_entries /\ t_pc' = "raised"
  /\ UNCHANGED t_data
  /\ UNCHANGED <<kvVars, repoVars>>

\* the loop condition fails: deserialize returns
TreeReturn ==
  /\ t_pc = "loop"
  /\ t_idx >= Len(t_data)
  /\ t_pc' = "returned"
  /\ UNCHANGED <<t_data, t_idx, t_entries>>
  /\ UNCHANGED <<kvVars, repoVars>>

NextTree == TreePass \/ TreeReturn

\* ------------------------------------------------------- specifications
vars == <<kv_map, raw_block, kv_parsed, kv_pc, t_data, t_idx, t_entries, t_pc,
          objdirs, objfiles, head, tags, ws, pc, op, ret>>

\* the two codecs run on their own, the store under write_object alone, the
\* commands with the process stopped at any step, and the commands
SpecKvlm == InitKvlm /\ [][NextKvlm]_vars
SpecTree == InitTree /\ [][NextTree]_vars
SpecStore == InitStore /\ [][NextStore]_vars
SpecStop == InitStop /\ [][NextStop]_vars
Spec == InitRepo /\ [][Next]_vars

\* ----------------------------------------------------------------- claims

\* C1: reading back what serialize_kvlm wrote gives the map that was
\* written: the same header keys in the same order, under each key the same
\* values in the same order, and the same trailer.
C1_KvlmRoundTrip ==
  kv_pc = "parsed" => KvMultimap(kv_parsed) = KvMultimap(kv_map)

\* a map with a two-valued key, a value holding LF SP, and a second key, has
\* been written and read back
C1_Witness ==
  /\ kv_pc = "parsed"
  /\ Len(kv_map) = 3
  /\ \E i \in 1..Len(kv_map) :
       /\ kv_map[i].isList /\ Len(kv_map[i].vals) = 2
       /\ kv_map[i].vals[1] = <<LF, SP>>
       /\ kv_map[i].vals[2] = <<ChA, LF>>
  /\ KvGet(kv_map, << >>).vals[1] = <<LF, SP, ChA>>

\* what reading an object back must give: the kind, and the content (a
\* commit's or tag's headers and trailer as an ordered multimap)
SameObject(r, o) ==
  /\ r.status = "ok"
  /\ r.type = o.type
  /\ IF o.type \in {"commit", "tag"}
     THEN KvMultimap(r.content) = KvMultimap(o.content)
     ELSE r.content = o.content

\* C2: when write_object(o) has returned an id, read_object of that id gives
\* an object of o's kind with o's content, which serializes to the payload
\* o serializes to and hashes to the same id.
C2_ObjectRoundTrip ==
  (ret.cmd = "write_object" /\ ret.status = "ok") =>
    LET r == read_object(objfiles, ret.sha)
    IN  /\ SameObject(r, ret.obj)
        /\ Serialize([type |-> r.type, content |-> r.content]) = Serialize(ret.obj)
        /\ Sha1(Frame([type |-> r.type, content |-> r.content])) = ret.sha

\* a commit with a two-valued parent header has been written and its id
\* returned
C2_Witness ==
  /\ ret.cmd = "write_object" /\ ret.status = "ok" /\ ret.obj.type = "commit"
  /\ \E i \in 1..Len(ret.obj.content) : ret.obj.content[i].isList

\* the bytes of a ref file as an id: a final LF dropped
RefId(bytes) ==
  IF bytes # << >> /\ bytes[Len(bytes)] = LF THEN PySlice(bytes, 0, -1) ELSE bytes
HoldsHexId(bytes) == Len(RefId(bytes)) = IdLen /\ AllHex(RefId(bytes))
KvKeys(kv) == [i \in 1..Len(kv) |-> kv[i].key]

\* C3: a commit command ends well, its commit has the headers tree, parent,
\* author, committer with parent the id HEAD held, or tree, author,
\* committer when HEAD held no hex id, and HEAD holds the new id and LF.
C3_CommitSucceeds ==
  ret.cmd = "commit" =>
    /\ ret.status = "ok"
    /\ head = ret.sha \o <<LF>>
    /\ LET c == read_object(objfiles, ret.sha)
       IN  /\ c.status = "ok" /\ c.type = "commit"
           /\ IF HoldsHexId(ret.before)
              THEN /\ KvKeys(c.content) = <<KeyTree, KeyParent, KeyAuthor, KeyCommitter, << >> >>
                   /\ KvGet(c.content, KeyParent).vals = <<RefId(ret.before)>>
              ELSE KvKeys(c.content) = <<KeyTree, KeyAuthor, KeyCommitter, << >> >>

\* the files and directories a tree stands for, below dest
RECURSIVE TreeContents(_, _, _)
TreeContents(files, entries, dest) ==
  IF entries = << >> THEN EmptyMap
  ELSE LET e    == Head(entries)
           path == dest \o <<e[2]>>
           obj  == read_object(files, e[3])
           rest == TreeContents(files, Tail(entries), dest)
           here == IF e[1] = ModeDir
                   THEN MapSet(TreeContents(files, obj.content, path), path, Dir)
                   ELSE MapSet(EmptyMap, path, File(obj.content))
       IN  [q \in DOMAIN rest \cup DOMAIN here |-> IF q \in DOMAIN here THEN here[q] ELSE rest[q]]

\* C4: a checkout of a commit that is in the store ends well and leaves in
\* the workspace exactly the files and directories of the commit's tree.
C4_CheckoutMaterializes ==
  (ret.cmd = "checkout" /\ "tree" \in DOMAIN ret) =>
    /\ ret.status = "ok"
    /\ ws = TreeContents(objfiles, read_object(objfiles, ret.tree).content, << >>)

\* C5: at every point, a path objects/<id[0:2]>/<id[2:]> that exists holds
\* the complete compressed frame of that id.
C5_StoreNeverDamaged ==
  \A id \in DOMAIN objfiles :
    CanDecompress(objfiles[id]) /\ Sha1(Decompress(objfiles[id])) = id

IsPrefixName(p, h) == Len(p) >= MinNameLen /\ Len(p) < IdLen /\ StartsWith(h, p)
StoredIds == DOMAIN objfiles

\* C7: find_object of a 40-character lowercase hex id returns that id, and
\* find_object of a prefix of 4 to 39 characters of a stored id, which no
\* other stored id starts with, returns the stored id.
C7_FindObject ==
  ret.cmd = "rev_parse" =>
    /\ (Len(ret.name) = IdLen /\ AllHex(ret.name) /\ Lower(ret.name) = ret.name)
         => ret.result = [status |-> "ok", sha |-> ret.name]
    /\ \A h \in StoredIds :
         (IsPrefixName(ret.name, h) /\ \A g \in StoredIds : StartsWith(g, ret.name) => g = h)
           => ret.result = [status |-> "ok", sha |-> h]

\* a prefix of one stored id was resolved while another stored id shares
\* its directory
C7_Witness ==
  /\ ret.cmd = "rev_parse"
  /\ \E h \in StoredIds :
       /\ IsPrefixName(ret.name, h) /\ Len(ret.name) = 5
       /\ \E g \in StoredIds : g # h /\ DirOf(g) = DirOf(h) /\ ~StartsWith(g, ret.name)
       /\ ret.result = [status |-> "ok", sha |-> h]

\* C9: find_object of a name of 4 to 39 hex characters that no stored id
\* starts with returns None (NotFound), whether or not the directory
\* objects/<name[0:2]>/ exists.
C9_NotFound ==
  (/\ ret.cmd = "rev_parse"
   /\ AllHex(ret.name) /\ Len(ret.name) >= MinNameLen /\ Len(ret.name) < IdLen
   /\ \A g \in StoredIds : ~StartsWith(g, Lower(ret.name)))
    => ret.result = [status |-> "None"]

\* a payload the tree grammar rejects: from some entry on there is no SP,
\* no NUL after the SP, or fewer than 20 bytes after the NUL
RECURSIVE MalformedFrom(_, _)
MalformedFrom(data, i) ==
  IF i >= Len(data) THEN FALSE
  ELSE LET sp == PyFind(data, SP, i)
           nu == PyFind(data, NUL, sp + 1)
       IN  \/ sp < 0
           \/ nu < 0
           \/ nu + 1 + RawIdLen > Len(data)
           \/ MalformedFrom(data, nu + 1 + RawIdLen)
MalformedTreePayload(data) == MalformedFrom(data, 0)

\* C10: TreeObject.deserialize does not return an entry list for a payload
\* that is truncated or lacks a delimiter.
C10_MalformedTreeRejected ==
  t_pc = "returned" => ~MalformedTreePayload(t_data)

\* the ref bytes name a stored object of the type
NamesStored(bytes, type) ==
  /\ HoldsHexId(bytes)
  /\ LET r == read_object(objfiles, RefId(bytes))
     IN  r.status = "ok" /\ r.type = type

C8_TreeEntries ==
  ret.cmd = "build_tree" =>
    LET t == read_object(objfiles, ret.sha)
        files == Sorted(ChildNames(ws, ret.base, "file"))
        dirs == Sorted(ChildNames(ws, ret.base, "dir"))
    IN  /\ t.status = "ok" /\ t.type = "tree"
        /\ Len(t.content) = Len(files) + Len(dirs)
        /\ \A i \in 1..Len(files) :
             t.content[i] = <<Mode644, files[i], Sha1(Frame(Blob(ws[Append(ret.base, files[i])].data)))>>
        /\ \A i \in 1..Len(dirs) :
             LET e == t.content[Len(files) + i]
             IN  /\ e[1] = ModeDir /\ e[2] = dirs[i]
                 /\ read_object(objfiles, e[3]).status = "ok"
                 /\ read_object(objfiles, e[3]).type = "tree"

\* the model's digest sends the frames met to different ids: no file that
\* holds a whole frame comes to hold another
Sha1NoCollision ==
  [][\A h \in DOMAIN objfiles :
       (CanDecompress(objfiles[h]) /\ CanDecompress(objfiles'[h])) => objfiles'[h] = objfiles[h]]_vars

\* the id names an object the store holds whole, of the type if one is given
StoredObject(id) == read_object(objfiles, id).status = "ok"
StoredAs(id, type) == StoredObject(id) /\ read_object(objfiles, id).type = type
HeaderValues(kv, key) == IF KvHas(kv, key) THEN KvGet(kv, key).vals ELSE << >>
\* no command is part way through a write
BetweenCommands == pc \in {"idle", "done"}

====
